---- MODULE Spec2Model ----
(***************************************************************************)
(* wenyan-mcp: the session-keyed protocol dispatcher of src/src/index.ts   *)
(* and the draft-publishing pipeline of src/src/publish.ts.                *)
(*                                                                         *)
(* Spec        the dispatcher: the transports/servers maps, the POST and   *)
(*             GET/DELETE handlers of /mcp, session initialization through *)
(*             the transport's callback, and transport closure.            *)
(* SpecPublish one call of publishToDraft: the token exchange, the         *)
(*             concurrent per-image uploads of uploadImages, the cover     *)
(*             resolution and the draft-creation request.                  *)
(*                                                                         *)
(* The transport and the remote endpoints are the environment. Of the      *)
(* transport the model keeps what index.ts relies on: handleRequest either *)
(* resolves (the transport answered the request itself) or throws (the     *)
(* catch blocks of index.ts), and on an initialization request that it     *)
(* accepts a transport without session draws its id from                   *)
(* sessionIdGenerator and calls onsessioninitialized, once. The remote     *)
(* endpoints answer each request with any of the bodies the code tells     *)
(* apart; a successful upload carries a media_id and a url, as the         *)
(* UploadResponse type declares.                                           *)
(***************************************************************************)
EXTENDS Integers, Sequences, FiniteSets, TLC

(***************************************************************************)
(* Bounds of the model.                                                    *)
(***************************************************************************)
\* Requests received on /mcp in one run.
MaxRequests == 3
\* Transport/server pairs created in one run (initialization branches taken).
MaxSessions == 2
\* img elements in the rendered HTML of a publish call.
MaxImages == 2
\* Fragments of which a URL returned by the material endpoint is composed.
MaxFragments == 3
\* Calls of publishToDraft in one run, one after the other.
MaxCalls == 2
\* Requests received on /mcp in a run that follows the tool calls.
MaxToolRequests == 2

(***************************************************************************)
(* Values.                                                                 *)
(***************************************************************************)
\* randomUUID(): successive draws are distinct 122-bit random values.
Uuids == <<"uuid-1", "uuid-2", "uuid-3", "uuid-4", "uuid-5", "uuid-6">>

\* req.headers['mcp-session-id'] when the header is absent (undefined); falsy.
NoSessionId == ""

\* A header value that names a property every object literal inherits from
\* Object.prototype: transports and servers are created with {}.
InheritedKey == "constructor"

\* The header values of the model: absent, an inherited property name, and
\* every id the run can mint (a request may bear one before it is minted).
HeaderValues ==
    {NoSessionId, InheritedKey} \cup {Uuids[n] : n \in 1..MaxSessions}

\* isInitializeRequest(req.body) holds exactly of the body "initialize".
Bodies == {"initialize", "other"}

\* What a property read of a map yields when the key is no own property:
\* undefined, or the inherited Object.prototype member (not a transport).
Undefined == 0
Inherited == -1

VARIABLES
    transports,   \* index.ts:28  session id -> transport (object number)
    servers,      \* index.ts:29  session id -> server (object number)
    objs,         \* the transport/server pairs created so far, in order
    uuidCount,    \* how many times randomUUID() was drawn
    reqs,         \* the requests received so far, with each handler's locals
    ppc,          \* where publishToDraft stands
    call,         \* the arguments of the publish call: cover, img srcs
    dom,          \* publish.ts:102-104  the src attribute of each img element
    tasks,        \* the uploadImage calls: 0 the cover, k the k-th img element
    accessToken,  \* publish.ts:136
    relocated,    \* publish.ts:137  {html, firstImageId} of uploadImages
    thumbMediaId, \* publish.ts:138
    sent,         \* the remote requests issued so far, in order
    settled,      \* the uploadImage calls and callbacks, in settling order
    result,       \* what publishToDraft returned or threw
    calls,        \* how many times publishToDraft was called
    tokenRequests,\* how many token requests all the calls have sent
    answers,      \* the bodies the token and the draft endpoint answered
    material,     \* publish.ts:48-70  one uploadMaterial call on its own
    tokenCall,    \* publish.ts:30-46  one fetchAccessToken call on its own
    relocation,   \* publish.ts:95-126  one uploadImages call on its own
    tool          \* index.ts:114-171  the tool call that was handled last

dvars == <<transports, servers, objs, uuidCount, reqs>>
pvars == <<ppc, call, dom, tasks, accessToken, relocated, thumbMediaId, sent,
           settled, result, calls, tokenRequests, answers>>
uvars == <<material, tokenCall, relocation>>
tvars == <<tool>>
vars == <<dvars, pvars, uvars, tvars>>

\* A JavaScript property read map[key] on an object literal.
Get(map, key) ==
    IF key \in DOMAIN map THEN map[key]
    ELSE IF key = InheritedKey THEN Inherited
    ELSE Undefined

Truthy(v) == v # Undefined

\* Whether a value is one of the transports the handlers created.
IsTransport(v) == v \in 1..Len(objs)

\* delete map[key]
Delete(map, key) == [k \in DOMAIN map \ {key} |-> map[k]]

\* map[key] = value
Put(map, key, value) ==
    [k \in DOMAIN map \cup {key} |-> IF k = key THEN value ELSE map[k]]

\* A response not yet written.
NoResponse == [by |-> "none", status |-> 0, code |-> 0]

\* index.ts:185-192  res.status(400).json({error: {code: -32000, ...}})
BadRequest == [by |-> "dispatcher", status |-> 400, code |-> -32000]

\* index.ts:201-209  res.status(500).json({error: {code: -32001, ...}})
InternalError == [by |-> "dispatcher", status |-> 500, code |-> -32001]

\* index.ts:218  res.status(400).send('Invalid or missing session ID')
InvalidSessionText == [by |-> "dispatcher", status |-> 400, code |-> 0]

\* index.ts:227  res.status(500).send('Internal server error')
InternalErrorText == [by |-> "dispatcher", status |-> 500, code |-> 0]

\* The transport wrote the response itself (a result, or its own rejection).
TransportResponse == [by |-> "transport", status |-> 0, code |-> 0]

\* PostBranch without the !sessionId test of index.ts:44.
PostBranchAnyInit(sessionId, body) ==
    IF sessionId # NoSessionId /\ Truthy(Get(transports, sessionId))
    THEN "reuse"
    ELSE IF body = "initialize"
    THEN "init"
    ELSE "reject"

\* PostBranch without the isInitializeRequest test of index.ts:44.
PostBranchAnyBody(sessionId, body) ==
    IF sessionId # NoSessionId /\ Truthy(Get(transports, sessionId))
    THEN "reuse"
    ELSE IF sessionId = NoSessionId
    THEN "init"
    ELSE "reject"

\* index.ts:40,44,183  the three branches of app.post('/mcp').
PostBranch(sessionId, body) ==
    IF sessionId # NoSessionId /\ Truthy(Get(transports, sessionId))
    THEN "reuse"
    ELSE IF sessionId = NoSessionId /\ body = "initialize"
    THEN "init"
    ELSE "reject"

\* index.ts:216  the guard of handleSessionRequest.
SessionBranch(sessionId) ==
    IF sessionId = NoSessionId \/ ~Truthy(Get(transports, sessionId))
    THEN "reject"
    ELSE "reuse"

\* A generator that returns the same id at every draw.
randomUUIDFixed == Uuids[1]

\* index.ts:47  sessionIdGenerator: () => randomUUID()
randomUUID == Uuids[uuidCount + 1]

InitDispatcher ==
    /\ transports = <<>>
    /\ servers = <<>>
    /\ objs = <<>>
    /\ uuidCount = 0
    /\ reqs = <<>>

\* A request record: the handler's inputs, its locals, and where it stands.
Request(method, sessionId, body, branch, transport, server, pc, resp) ==
    [method |-> method, sessionId |-> sessionId, body |-> body,
     branch |-> branch, transport |-> transport, server |-> server,
     pc |-> pc, resp |-> resp]

\* index.ts:34-211  app.post('/mcp'), up to its first await or its return.
Post(sessionId, body) ==
    /\ Len(reqs) < MaxRequests
    /\ UNCHANGED <<pvars, uvars, tvars>>
    /\ LET branch == PostBranch(sessionId, body) IN
       CASE branch = "reuse" ->
              \* index.ts:42-43, then 196-210: transport.handleRequest is
              \* called at once; on a value that is no transport the call
              \* throws a TypeError, which the catch turns into a 500.
              LET t == Get(transports, sessionId) IN
              /\ reqs' = Append(reqs,
                    Request("POST", sessionId, body, branch, t,
                            Get(servers, sessionId),
                            IF IsTransport(t) THEN "handle" ELSE "done",
                            IF IsTransport(t) THEN NoResponse
                                              ELSE InternalError))
              /\ UNCHANGED <<transports, servers, objs, uuidCount>>
         [] branch = "init" ->
              \* index.ts:46-173: a new transport and a new server, then
              \* await server.connect(transport).
              /\ Len(objs) < MaxSessions
              /\ objs' = Append(objs, [sessionId |-> NoSessionId,
                                       onclose |-> FALSE, closed |-> FALSE])
              /\ reqs' = Append(reqs,
                    Request("POST", sessionId, body, branch,
                            Len(objs) + 1, Len(objs) + 1, "connect",
                            NoResponse))
              /\ UNCHANGED <<transports, servers, uuidCount>>
         [] branch = "reject" ->
              \* index.ts:183-194
              /\ reqs' = Append(reqs,
                    Request("POST", sessionId, body, branch, Undefined,
                            Undefined, "done", BadRequest))
              /\ UNCHANGED <<transports, servers, objs, uuidCount>>

\* index.ts:174-197  server.connect resolved: transport.onclose is set and
\* transport.handleRequest(req, res, req.body) is called.
Connected(i) ==
    /\ i \in 1..Len(reqs)
    /\ reqs[i].pc = "connect"
    /\ objs' = [objs EXCEPT ![reqs[i].transport].onclose = TRUE]
    /\ reqs' = [reqs EXCEPT ![i].pc = "handle"]
    /\ UNCHANGED <<transports, servers, uuidCount, pvars, uvars, tvars>>

\* onsessioninitialized with transport and server shared by all requests
\* (declared outside the handler): it registers the pair created last.
OnSessionInitializedShared(i, sid) ==
    /\ transports' = Put(transports, sid, Len(objs))
    /\ servers' = Put(servers, sid, Len(objs))

\* index.ts:48-52  onsessioninitialized: (sid) => { transports[sid] =
\* transport; servers[sid] = server; } with the handler's own locals.
OnSessionInitialized(i, sid) ==
    /\ transports' = Put(transports, sid, reqs[i].transport)
    /\ servers' = Put(servers, sid, reqs[i].server)

\* index.ts:46-53,197  the transport, handling an initialization request it
\* accepts, draws its session id from sessionIdGenerator and calls
\* onsessioninitialized. A transport initializes at most once.
SessionInitialized(i) ==
    /\ i \in 1..Len(reqs)
    /\ reqs[i].pc = "handle"
    /\ reqs[i].method = "POST"
    /\ reqs[i].body = "initialize"
    /\ LET t == reqs[i].transport IN
       /\ objs[t].sessionId = NoSessionId
       /\ uuidCount < Len(Uuids)
       /\ objs' = [objs EXCEPT ![t].sessionId = randomUUID]
       /\ uuidCount' = uuidCount + 1
       /\ OnSessionInitialized(i, randomUUID)
    /\ reqs' = [reqs EXCEPT ![i].pc = "respond"]
    /\ UNCHANGED <<pvars, uvars, tvars>>

\* index.ts:197-198,223-224  transport.handleRequest resolved: the transport
\* wrote the response (the result, or its own rejection of the request).
HandleResolved(i) ==
    /\ i \in 1..Len(reqs)
    /\ reqs[i].pc \in {"handle", "respond"}
    /\ reqs' = [reqs EXCEPT ![i].pc = "done", ![i].resp = TransportResponse]
    /\ UNCHANGED <<transports, servers, objs, uuidCount, pvars, uvars, tvars>>

\* index.ts:199-210,225-228  transport.handleRequest threw: the catch block
\* answers 500.
HandleThrew(i) ==
    /\ i \in 1..Len(reqs)
    /\ reqs[i].pc \in {"handle", "respond"}
    /\ reqs' = [reqs EXCEPT ![i].pc = "done",
                            ![i].resp = IF reqs[i].method = "POST"
                                        THEN InternalError
                                        ELSE InternalErrorText]
    /\ UNCHANGED <<transports, servers, objs, uuidCount, pvars, uvars, tvars>>

\* index.ts:213-229  handleSessionRequest (GET and DELETE), up to its await
\* or its return.
HandleSessionRequest(method, sessionId) ==
    /\ Len(reqs) < MaxRequests
    /\ LET branch == SessionBranch(sessionId)
           t == Get(transports, sessionId) IN
       reqs' = Append(reqs,
          IF branch = "reject"
          THEN Request(method, sessionId, "other", branch, Undefined,
                       Undefined, "done", InvalidSessionText)
          ELSE Request(method, sessionId, "other", branch, t, Undefined,
                       IF IsTransport(t) THEN "handle" ELSE "done",
                       IF IsTransport(t) THEN NoResponse
                                         ELSE InternalErrorText))
    /\ UNCHANGED <<transports, servers, objs, uuidCount, pvars, uvars, tvars>>

\* onclose without the delete of index.ts:180.
OnCloseTransportsOnly(t) ==
    IF objs[t].sessionId # NoSessionId
    THEN /\ transports' = Delete(transports, objs[t].sessionId)
         /\ servers' = servers
    ELSE UNCHANGED <<transports, servers>>

\* index.ts:176-182  transport.onclose
OnClose(t) ==
    IF objs[t].sessionId # NoSessionId
    THEN /\ transports' = Delete(transports, objs[t].sessionId)
         /\ servers' = Delete(servers, objs[t].sessionId)
    ELSE UNCHANGED <<transports, servers>>

\* The transport signals closure: its onclose callback runs. Only a
\* transport that has a session can be reached to be closed.
TransportClose(t) ==
    /\ t \in 1..Len(objs)
    /\ objs[t].onclose
    /\ objs[t].sessionId # NoSessionId
    /\ ~objs[t].closed
    /\ objs' = [objs EXCEPT ![t].closed = TRUE]
    /\ OnClose(t)
    /\ UNCHANGED <<uuidCount, reqs, pvars, uvars, tvars>>

Next ==
    \/ \E sessionId \in HeaderValues, body \in Bodies : Post(sessionId, body)
    \/ \E method \in {"GET", "DELETE"}, sessionId \in HeaderValues :
          HandleSessionRequest(method, sessionId)
    \/ \E i \in 1..MaxRequests : Connected(i)
    \/ \E i \in 1..MaxRequests : SessionInitialized(i)
    \/ \E i \in 1..MaxRequests : HandleThrew(i)
    \/ \E i \in 1..MaxRequests : HandleResolved(i)
    \/ \E t \in 1..MaxSessions : TransportClose(t)


(***************************************************************************)
(* The draft publisher of publish.ts.                                      *)
(*                                                                         *)
(* Strings that the code inspects are sequences: the srcs, paths and media  *)
(* ids are sequences of tokens, the URLs that the material endpoint        *)
(* returns are sequences of characters; startsWith and replace act on the  *)
(* elements.                                                               *)
(***************************************************************************)
\* The empty string, null and undefined: the falsy values of the pipeline.
Empty == <<>>

\* publish.ts:109,143  'https://mmbiz.qpic.cn'
CdnPrefix == <<"https://", "mmbiz.qpic.cn">>

\* String.prototype.startsWith
StartsWith(s, prefix) ==
    /\ Len(s) >= Len(prefix)
    /\ SubSeq(s, 1, Len(prefix)) = prefix

\* publish.ts:74  imageUrl.startsWith("http")
StartsWithHttp(s) == Len(s) > 0 /\ s[1] \in {"http://", "https://"}

\* publish.ts:66  the pattern "http://" and its replacement "https://"
HttpPrefix == <<"h", "t", "t", "p", ":", "/", "/">>
HttpsPrefix == <<"h", "t", "t", "p", "s", ":", "/", "/">>

\* String.prototype.replace(from, to) with a string pattern: the first
\* occurrence of the pattern, wherever it stands, and only that one.
RECURSIVE ReplaceFirst(_, _, _)
ReplaceFirst(s, from, to) ==
    IF Len(s) < Len(from) THEN s
    ELSE IF StartsWith(s, from)
         THEN to \o SubSeq(s, Len(from) + 1, Len(s))
         ELSE <<Head(s)>> \o ReplaceFirst(Tail(s), from, to)

\* The src attributes an img element of the rendered HTML can carry: none,
\* a URL on the platform CDN, another remote URL, a local path.
ImageSrcs ==
    { Empty,
      <<"https://", "mmbiz.qpic.cn", "/hosted.png">>,
      <<"https://", "example.com", "/a.png">>,
      <<"/local", "/b.png">> }

\* The cover of the front matter: none, a local path, a remote URL.
Covers ==
    { Empty,
      <<"/local", "/cover.png">>,
      <<"https://", "example.com", "/cover.png">> }

\* The img elements of a call's HTML, in document order.
Contents == UNION {[1..n -> ImageSrcs] : n \in 0..MaxImages}

\* The bodies with which the material endpoint answers a successful upload.
UploadResponses ==
    { [media_id |-> <<"media-1">>, url |-> HttpPrefix \o <<"1">>],
      [media_id |-> <<"media-2">>, url |-> HttpsPrefix \o <<"2">>] }

NoUploadResponse == [media_id |-> Empty, url |-> Empty]

\* How the material endpoint can answer: a non-success HTTP status, a body
\* with an errcode, or a success body.
UploadAnswers ==
    {[kind |-> "http_error", data |-> NoUploadResponse],
     [kind |-> "errcode", data |-> NoUploadResponse]}
       \cup {[kind |-> "ok", data |-> d] : d \in UploadResponses}

\* The shapes of the JSON body of the token and of the draft endpoint: with
\* the success field (access_token, media_id), with an errcode, with
\* neither, and with both. A field is there when its value is truthy.
JsonShapes == {"value", "errcode", "neither"}
AllJsonShapes == JsonShapes \cup {"both"}

\* The errcode looked at before the success field.
JsonOutcomeErrcodeFirst(shape) ==
    IF shape \in {"errcode", "both"} THEN "errcode"
    ELSE IF shape = "value" THEN "value"
    ELSE "unexpected"

\* publish.ts:36-45,165-174  if (data.access_token) ... else if
\* (data.errcode) ... else ...
JsonOutcome(shape) ==
    IF shape \in {"value", "both"} THEN "value"
    ELSE IF shape \in {"errcode", "both"} THEN "errcode"
    ELSE "unexpected"

\* Neither endpoint has answered.
NoAnswers == [token |-> "none", draft |-> "none"]

\* An uploadImage call that has not started.
IdleTask ==
    [pc |-> "idle", imageUrl |-> Empty, fileName |-> Empty,
     resp |-> NoUploadResponse, out |-> Empty, error |-> "none"]

NoResult == [status |-> "pending", error |-> "none", media_id |-> Empty]
Threw(e) == [status |-> "threw", error |-> e, media_id |-> Empty]
Returned(m) == [status |-> "returned", error |-> "none", media_id |-> m]

\* uploadImages has not returned.
NoRelocation == [done |-> FALSE, html |-> <<>>, firstImageId |-> Empty]

InitPublish ==
    /\ ppc = "idle"
    /\ call = [cover |-> Empty, content |-> <<>>]
    /\ dom = <<>>
    /\ tasks = <<>>
    /\ accessToken = Empty
    /\ relocated = NoRelocation
    /\ thumbMediaId = Empty
    /\ sent = <<>>
    /\ settled = <<>>
    /\ result = NoResult
    /\ calls = 0
    /\ tokenRequests = 0
    /\ answers = NoAnswers

\* The img elements of the call: images = Array.from(querySelectorAll('img')).
Images == 1..Len(call.content)

\* A remote request: the endpoint, the uploadImage call that issued it (0
\* the cover, k the k-th img element, -1 publishToDraft itself) and, for an
\* upload, the file name; for the draft, the article that was sent.
Req(kind, who, fileName, content, thumb) ==
    [kind |-> kind, who |-> who, fileName |-> fileName,
     content |-> content, thumb |-> thumb]

TokenRequest == Req("token", -1, Empty, <<>>, Empty)
DownloadRequest(k) == Req("download", k, Empty, <<>>, Empty)
UploadRequest(k, name) == Req("upload", k, name, <<>>, Empty)
DraftRequest(html, thumb) == Req("draft", -1, Empty, html, thumb)

\* path.extname(...) === "" of the last segment.
NoExtension(segment) == segment \notin {"/hosted.png", "/a.png", "/b.png",
                                         "/cover.png", "/1", "/2"}

\* publish.ts:80-82,87-89  imageName = fileName ?? (basename, with .jpg
\* appended when it has no extension); basename is the last segment.
ImageName(imageUrl, fileName) ==
    IF fileName # Empty THEN fileName
    ELSE IF NoExtension(imageUrl[Len(imageUrl)])
         THEN <<imageUrl[Len(imageUrl)], ".jpg">>
         ELSE <<imageUrl[Len(imageUrl)]>>

\* publish.ts:72-75,86-90  uploadImage up to its first await: a fetch of
\* the remote URL, or fileFromPath of the local path.
StartedTask(imageUrl, fileName) ==
    [pc |-> IF StartsWithHttp(imageUrl) THEN "download" ELSE "read",
     imageUrl |-> imageUrl, fileName |-> fileName,
     resp |-> NoUploadResponse, out |-> Empty, error |-> "none"]

\* The callback of images.map passing over the img elements that are on the
\* platform CDN, as it passes over those without src.
MappedTaskCdnSkipped(src) ==
    IF src = Empty \/ StartsWith(src, CdnPrefix)
    THEN [IdleTask EXCEPT !.pc = "done"]
    ELSE StartedTask(src, Empty)

\* publish.ts:106-118  the async callback of images.map, up to its first
\* await: no src gives null, a CDN src gives the src itself, any other src
\* starts uploadImage.
MappedTask(src) ==
    IF src = Empty THEN [IdleTask EXCEPT !.pc = "done"]
    ELSE IF StartsWith(src, CdnPrefix)
         THEN [IdleTask EXCEPT !.pc = "done", !.out = src]
         ELSE StartedTask(src, Empty)

\* The downloads that uploadImage calls k..n issue, in document order.
RECURSIVE Downloads(_, _, _)
Downloads(t, k, n) ==
    IF k > n THEN <<>>
    ELSE (IF t[k].pc = "download" THEN <<DownloadRequest(k)>> ELSE <<>>)
            \o Downloads(t, k + 1, n)

\* The callbacks k..n that settle without awaiting, in document order.
RECURSIVE SettledNow(_, _, _)
SettledNow(t, k, n) ==
    IF k > n THEN <<>>
    ELSE (IF t[k].pc = "done" THEN <<k>> ELSE <<>>) \o SettledNow(t, k + 1, n)

\* Promise.all with nothing rejected once a promise was: rejections are
\* dropped and the result is taken when every promise has settled.
PromiseAllSettled(t, n) ==
    IF \A k \in 1..n : t[k].pc \in {"done", "failed"} THEN "resolved"
    ELSE "pending"

\* Promise.all resolved as soon as one promise is fulfilled, the others
\* still pending.
PromiseAllRace(t, n) ==
    IF \E k \in 1..n : t[k].pc = "failed" THEN "rejected"
    ELSE IF \E k \in 1..n : t[k].pc = "done" THEN "resolved"
    ELSE "pending"

\* publish.ts:120  Promise.all(uploadPromises): rejected as soon as one
\* promise is, resolved when all are.
PromiseAll(t, n) ==
    IF \E k \in 1..n : t[k].pc = "failed" THEN "rejected"
    ELSE IF \A k \in 1..n : t[k].pc = "done" THEN "resolved"
    ELSE "pending"

\* mediaIds filled in the order in which the callbacks settle: the first
\* id is the one of the callback that settled first.
FirstImageIdSettledFirst(outs) ==
    LET ids == SelectSeq(outs, LAMBDA o : o # Empty)
        early == SelectSeq(settled, LAMBDA k : k >= 1 /\ outs[k] # Empty) IN
    IF early # <<>> THEN outs[early[1]]
    ELSE IF ids = <<>> THEN Empty ELSE ids[1]

\* publish.ts:120-121  mediaIds = (...).filter(Boolean);
\* firstImageId = mediaIds[0] || ""
FirstImageId(outs) ==
    LET ids == SelectSeq(outs, LAMBDA o : o # Empty) IN
    IF ids = <<>> THEN Empty ELSE ids[1]

\* thumbMediaId taken from the embedded images when there are any.
CoverMediaIdFromImages(resp, firstImageId) ==
    IF firstImageId # Empty THEN firstImageId ELSE resp.media_id

\* publish.ts:141,145  thumbMediaId = resp.media_id
CoverMediaId(resp, firstImageId) == resp.media_id

\* The check of publish.ts:150 left out.
MissingCoverNever(thumb) == FALSE

\* publish.ts:150  if (!thumbMediaId)
MissingCover(thumb) == thumb = Empty

\* publish.ts:150-163  the missing-cover check, then the draft request.
SubmitDraft(html, thumb, s) ==
    /\ thumbMediaId' = thumb
    /\ IF MissingCover(thumb)
       THEN /\ ppc' = "threw"
            /\ result' = Threw("missing_cover")
            /\ sent' = s
       ELSE /\ ppc' = "draft"
            /\ result' = result
            /\ sent' = Append(s, DraftRequest(html, thumb))

\* publish.ts:121-125,137-149  uploadImages returns {html, firstImageId};
\* publishToDraft then resolves the cover: an explicit cover, or a fallback
\* id that is a CDN URL, is uploaded as cover.jpg; any other fallback id is
\* the cover media id.
ResolveCover(html, firstImageId, t, s) ==
    /\ relocated' = [done |-> TRUE, html |-> html,
                      firstImageId |-> firstImageId]
    /\ IF call.cover # Empty \/ StartsWith(firstImageId, CdnPrefix)
       THEN LET url == IF call.cover # Empty THEN call.cover
                       ELSE firstImageId
                task == StartedTask(url, <<"cover.jpg">>) IN
            /\ tasks' = [t EXCEPT ![0] = task]
            /\ sent' = IF task.pc = "download"
                       THEN Append(s, DownloadRequest(0)) ELSE s
            /\ ppc' = "cover"
            /\ UNCHANGED <<thumbMediaId, result>>
       ELSE /\ tasks' = t
            /\ SubmitDraft(html, firstImageId, s)

\* publish.ts:120-125  the await of Promise.all in uploadImages, with the
\* tasks t and the element srcs d of the step that settles a promise.
AwaitImages(t, d, s) ==
    LET n == Len(call.content)
        outcome == PromiseAll(t, n) IN
    CASE outcome = "pending" ->
           /\ tasks' = t
           /\ sent' = s
           /\ ppc' = "images"
           /\ UNCHANGED <<relocated, thumbMediaId, result>>
      [] outcome = "rejected" ->
           /\ tasks' = t
           /\ sent' = s
           /\ ppc' = "threw"
           /\ result' = Threw(t[CHOOSE k \in 1..n : t[k].pc = "failed"].error)
           /\ UNCHANGED <<relocated, thumbMediaId>>
      [] outcome = "resolved" ->
           ResolveCover(d, FirstImageId([k \in 1..n |-> t[k].out]), t, s)

\* fetchAccessToken with a token kept from an earlier call: no request is
\* sent while a token is at hand.
TokenRequestsCached(cached) ==
    IF cached # Empty THEN <<>> ELSE <<TokenRequest>>

\* publish.ts:30-34  the requests fetchAccessToken sends, whatever token an
\* earlier call obtained: nothing is kept from one call to the next.
TokenRequests(cached) == <<TokenRequest>>

\* publish.ts:128-136  publishToDraft is called: every local of the call is
\* fresh, and fetchAccessToken sends the token request. The model follows
\* one call at a time: the call starts when no other is running, and what
\* an earlier call left in flight is not followed further.
PublishToDraft(cover, content) ==
    /\ ppc \in {"idle", "returned", "threw"}
    /\ calls < MaxCalls
    /\ calls' = calls + 1
    /\ ppc' = "token"
    /\ call' = [cover |-> cover, content |-> content]
    /\ dom' = content
    /\ tasks' = [k \in 0..Len(content) |-> IdleTask]
    /\ sent' = TokenRequests(accessToken)
    /\ tokenRequests' = tokenRequests + Len(TokenRequests(accessToken))
    /\ accessToken' = Empty
    /\ relocated' = NoRelocation
    /\ thumbMediaId' = Empty
    /\ settled' = <<>>
    /\ result' = NoResult
    /\ answers' = NoAnswers

\* publishToDraft called on its own, with any cover and any rendered HTML.
Publish(cover, content) ==
    /\ calls = 0
    /\ PublishToDraft(cover, content)
    /\ UNCHANGED <<dvars, uvars, tvars>>

\* publishToDraft called again with the arguments of the call before.
PublishAgain ==
    /\ calls > 0
    /\ PublishToDraft(call.cover, call.content)
    /\ UNCHANGED <<dvars, uvars, tvars>>

\* publish.ts:35-46,136-137,95-120  the token endpoint answers. With a token
\* uploadImages runs: without an img tag it returns the content as it is,
\* otherwise every img element's callback runs to its first await.
TokenAnswered(shape) ==
    /\ ppc = "token"
    /\ answers' = [answers EXCEPT !.token = shape]
    /\ IF JsonOutcome(shape) = "value"
       THEN /\ accessToken' = <<"token">>
            /\ IF Len(call.content) = 0
               THEN /\ UNCHANGED <<dom, settled>>
                    /\ ResolveCover(call.content, Empty, tasks, sent)
               ELSE LET t == [k \in 0..Len(call.content) |->
                                IF k = 0 THEN IdleTask
                                ELSE MappedTask(dom[k])]
                        s == sent \o Downloads(t, 1, Len(call.content)) IN
                    /\ dom' = dom
                    /\ settled' = SettledNow(t, 1, Len(call.content))
                    /\ AwaitImages(t, dom, s)
       ELSE /\ ppc' = "threw"
            /\ result' = Threw(IF JsonOutcome(shape) = "errcode"
                               THEN "token_errcode"
                               ELSE "token_unexpected")
            /\ UNCHANGED <<accessToken, dom, tasks, relocated, thumbMediaId,
                           sent, settled>>
    /\ UNCHANGED <<call, calls, tokenRequests, dvars, uvars, tvars>>

\* The continuation of the code that awaits uploadImage call k, once the
\* step has changed the tasks to t, the element srcs to d and the requests
\* to s: publishToDraft for the cover (publish.ts:140-149), the callback of
\* images.map and Promise.all for an img element (publish.ts:110-120). When
\* publishToDraft has already thrown, nothing awaits the call any more.
Continue(k, t, d, s) ==
    /\ dom' = d
    /\ settled' = IF t[k].pc \in {"done", "failed"} THEN Append(settled, k)
                  ELSE settled
    /\ IF k = 0
       THEN CASE t[0].pc = "failed" ->
                   /\ tasks' = t
                   /\ sent' = s
                   /\ ppc' = "threw"
                   /\ result' = Threw(t[0].error)
                   /\ UNCHANGED <<relocated, thumbMediaId>>
              [] t[0].pc = "done" ->
                   /\ tasks' = t
                   /\ relocated' = relocated
                   /\ SubmitDraft(relocated.html,
                         CoverMediaId(t[0].resp, relocated.firstImageId), s)
              [] OTHER ->
                   /\ tasks' = t
                   /\ sent' = s
                   /\ UNCHANGED <<ppc, relocated, thumbMediaId, result>>
       ELSE IF ppc = "images"
            THEN AwaitImages(t, d, s)
            ELSE /\ tasks' = t
                 /\ sent' = s
                 /\ UNCHANGED <<ppc, relocated, thumbMediaId, result>>

\* publish.ts:75-84  the fetch of the image URL answers: when it is not ok
\* (or has no body) uploadImage throws, otherwise uploadMaterial sends the
\* upload request.
Downloaded(k, ok) ==
    /\ k \in DOMAIN tasks
    /\ tasks[k].pc = "download"
    /\ IF ok
       THEN Continue(k, [tasks EXCEPT ![k].pc = "upload"], dom,
               Append(sent, UploadRequest(k,
                  ImageName(tasks[k].imageUrl, tasks[k].fileName))))
       ELSE Continue(k, [tasks EXCEPT ![k].pc = "failed",
                                      ![k].error = "download"], dom, sent)
    /\ UNCHANGED <<call, accessToken, calls, tokenRequests, answers, dvars,
                   uvars, tvars>>

\* publish.ts:86-91  fileFromPath resolves, and uploadMaterial sends the
\* upload request, or it rejects (no such file).
FileRead(k, ok) ==
    /\ k \in DOMAIN tasks
    /\ tasks[k].pc = "read"
    /\ IF ok
       THEN Continue(k, [tasks EXCEPT ![k].pc = "upload"], dom,
               Append(sent, UploadRequest(k,
                  ImageName(tasks[k].imageUrl, tasks[k].fileName))))
       ELSE Continue(k, [tasks EXCEPT ![k].pc = "failed",
                                      ![k].error = "read"], dom, sent)
    /\ UNCHANGED <<call, accessToken, calls, tokenRequests, answers, dvars,
                   uvars, tvars>>

\* uploadMaterial without the rewriting of publish.ts:66-67.
NormalizedNever(data) == data

\* publish.ts:66-67  data.url = data.url.replace("http://", "https://")
Normalized(data) ==
    [data EXCEPT !.url = ReplaceFirst(data.url, HttpPrefix, HttpsPrefix)]

\* The callbacks sharing one element variable, left at the last img element
\* when the uploads complete.
SetSrcOfLast(d, k, url) == [d EXCEPT ![Len(d)] = url]

\* publish.ts:111  element.setAttribute('src', resp.url), element being the
\* k-th img element.
SetSrc(d, k, url) == [d EXCEPT ![k] = url]

\* publish.ts:56-69,110-112  the material endpoint answers: uploadMaterial
\* throws on a non-success status and on an errcode, otherwise returns the
\* body with its url rewritten; the callback of images.map then sets the
\* element's src to that url and yields the media id.
Uploaded(k, answer) ==
    /\ k \in DOMAIN tasks
    /\ tasks[k].pc = "upload"
    /\ IF answer.kind = "ok"
       THEN LET data == Normalized(answer.data) IN
            Continue(k,
               [tasks EXCEPT ![k].pc = "done", ![k].resp = data,
                             ![k].out = data.media_id],
               IF k = 0 THEN dom ELSE SetSrc(dom, k, data.url),
               sent)
       ELSE Continue(k, [tasks EXCEPT ![k].pc = "failed",
                                      ![k].error = answer.kind], dom, sent)
    /\ UNCHANGED <<call, accessToken, calls, tokenRequests, answers, dvars,
                   uvars, tvars>>

\* publish.ts:164-174  the draft endpoint answers.
DraftAnswered(shape) ==
    /\ ppc = "draft"
    /\ answers' = [answers EXCEPT !.draft = shape]
    /\ IF JsonOutcome(shape) = "value"
       THEN /\ ppc' = "returned"
            /\ result' = Returned(<<"draft-1">>)
       ELSE /\ ppc' = "threw"
            /\ result' = Threw(IF JsonOutcome(shape) = "errcode"
                               THEN "draft_errcode"
                               ELSE "draft_unexpected")
    /\ UNCHANGED <<call, dom, tasks, accessToken, relocated, thumbMediaId,
                   sent, settled, calls, tokenRequests, dvars, uvars, tvars>>

NextPublish ==
    \/ \E cover \in Covers, content \in Contents : Publish(cover, content)
    \/ PublishAgain
    \/ \E shape \in JsonShapes : TokenAnswered(shape)
    \/ \E k \in 0..MaxImages, ok \in BOOLEAN : Downloaded(k, ok)
    \/ \E k \in 0..MaxImages, ok \in BOOLEAN : FileRead(k, ok)
    \/ \E k \in 0..MaxImages, answer \in UploadAnswers : Uploaded(k, answer)
    \/ \E shape \in JsonShapes : DraftAnswered(shape)


(***************************************************************************)
(* uploadMaterial on its own, for every URL the endpoint can return.       *)
(***************************************************************************)
\* The pieces of the URLs that the material endpoint returns: the two
\* scheme prefixes, parts of them, and other characters.
Fragments ==
    { HttpPrefix, HttpsPrefix, <<"h">>, <<"t", "t", "p">>, <<"s">>,
      <<":", "/", "/">>, <<"a">>, <<"/">> }

\* The URLs of at most n fragments.
RECURSIVE UrlsOf(_)
UrlsOf(n) ==
    IF n = 0 THEN {<<>>}
    ELSE UrlsOf(n - 1) \cup {u \o f : u \in UrlsOf(n - 1), f \in Fragments}

\* data.url of a success body of the material endpoint.
ReturnedUrls == UrlsOf(MaxFragments)

\* How the material endpoint can answer one uploadMaterial call.
MaterialAnswers ==
    {[kind |-> "http_error", data |-> NoUploadResponse],
     [kind |-> "errcode", data |-> NoUploadResponse]}
       \cup {[kind |-> "ok", data |-> [media_id |-> <<"media-1">>, url |-> u]] :
                u \in ReturnedUrls}

\* The uploadMaterial call awaits the endpoint's answer.
InitMaterial ==
    material = [pc |-> "fetch", returned |-> NoUploadResponse,
                data |-> NoUploadResponse]

\* publish.ts:52-69  uploadMaterial from the endpoint's answer on: it throws
\* on a non-success status and on an errcode, and otherwise returns the body
\* with its url rewritten.
UploadMaterial(answer) ==
    /\ material.pc = "fetch"
    /\ material' =
          IF answer.kind = "ok"
          THEN [pc |-> "returned", returned |-> answer.data,
                data |-> Normalized(answer.data)]
          ELSE [pc |-> "threw", returned |-> NoUploadResponse,
                data |-> NoUploadResponse]
    /\ UNCHANGED <<dvars, pvars, tvars, tokenCall, relocation>>

NextMaterial == \E answer \in MaterialAnswers : UploadMaterial(answer)

(***************************************************************************)
(* fetchAccessToken on its own, for every source of the credentials.       *)
(***************************************************************************)
\* The appid and appsecret arguments: undefined or empty, or a value.
SuppliedIds == {Empty, <<"arg-id">>, <<"arg-id-2">>}
SuppliedSecrets == {Empty, <<"arg-secret">>, <<"arg-secret-2">>}

\* process.env.WECHAT_APP_ID and process.env.WECHAT_APP_SECRET: unset or
\* empty, or a value.
EnvIds == {Empty, <<"env-id">>}
EnvSecrets == {Empty, <<"env-secret">>}

\* The process-level default used although a value was supplied.
CredentialToUseEnvFirst(supplied, env) ==
    IF env # Empty THEN env
    ELSE IF supplied # Empty THEN supplied
    ELSE Empty

\* publish.ts:32-33  appid || process.env.WECHAT_APP_ID || ""
CredentialToUse(supplied, env) ==
    IF supplied # Empty THEN supplied
    ELSE IF env # Empty THEN env
    ELSE Empty

\* No token request was sent.
NoTokenQuery == [sent |-> FALSE, appid |-> Empty, secret |-> Empty]

\* fetchAccessToken was not called yet.
InitToken ==
    tokenCall = [pc |-> "idle", appid |-> Empty, appsecret |-> Empty,
                 envId |-> Empty, envSecret |-> Empty,
                 query |-> NoTokenQuery, error |-> "none",
                 access_token |-> Empty]

\* publish.ts:30-34  fetchAccessToken up to its first await: the request to
\* the token endpoint, with the credentials in its query string.
FetchAccessToken(appid, appsecret, envId, envSecret) ==
    /\ tokenCall.pc = "idle"
    /\ tokenCall' = [tokenCall EXCEPT
          !.pc = "fetch", !.appid = appid, !.appsecret = appsecret,
          !.envId = envId, !.envSecret = envSecret,
          !.query = [sent |-> TRUE,
                     appid |-> CredentialToUse(appid, envId),
                     secret |-> CredentialToUse(appsecret, envSecret)]]
    /\ UNCHANGED <<dvars, pvars, tvars, material, relocation>>

\* publish.ts:35-45  the token endpoint answers: the body has an
\* access_token, or an errcode, or neither.
TokenFetched(shape) ==
    /\ tokenCall.pc = "fetch"
    /\ tokenCall' =
          IF JsonOutcome(shape) = "value"
          THEN [tokenCall EXCEPT !.pc = "returned",
                                 !.access_token = <<"token">>]
          ELSE [tokenCall EXCEPT !.pc = "threw",
                                 !.error = IF JsonOutcome(shape) = "errcode"
                                           THEN "token_errcode"
                                           ELSE "token_unexpected"]
    /\ UNCHANGED <<dvars, pvars, tvars, material, relocation>>

NextToken ==
    \/ \E appid \in SuppliedIds, appsecret \in SuppliedSecrets,
          envId \in EnvIds, envSecret \in EnvSecrets :
          FetchAccessToken(appid, appsecret, envId, envSecret)
    \/ \E shape \in JsonShapes : TokenFetched(shape)

(***************************************************************************)
(* uploadImages on its own, up to its return or to its first await, for    *)
(* the text of the HTML: the content is a sequence of characters.          *)
(***************************************************************************)
\* publish.ts:97  the string '<img'
ImgOpen == <<"<", "i", "m", "g">>

CommentOpen == <<"<", "!", "-", "-">>
CommentClose == <<"-", "-", ">">>
TagClose == <<">">>
SrcAttr == <<"s", "r", "c", "=">>

\* The pieces of the rendered HTML: a void element, a character of text, a
\* comment that mentions an image tag, an img element without src, and an
\* img element whose src is a local path.
HtmlFragments ==
    { <<"<", "b", "r", ">">>,
      <<"a">>,
      CommentOpen \o ImgOpen \o CommentClose,
      ImgOpen \o TagClose,
      ImgOpen \o <<" ">> \o SrcAttr \o <<"u">> \o TagClose }

\* The HTML texts of at most n pieces.
RECURSIVE HtmlOf(_)
HtmlOf(n) ==
    IF n = 0 THEN {<<>>}
    ELSE HtmlOf(n - 1) \cup {h \o f : h \in HtmlOf(n - 1), f \in HtmlFragments}

\* The content argument of uploadImages.
HtmlContents == HtmlOf(MaxFragments)

\* String.prototype.includes
RECURSIVE Includes(_, _)
Includes(s, pattern) ==
    IF Len(s) < Len(pattern) THEN FALSE
    ELSE StartsWith(s, pattern) \/ Includes(Tail(s), pattern)

\* What follows the first occurrence of the pattern in s (nothing when the
\* pattern does not occur).
RECURSIVE After(_, _)
After(s, pattern) ==
    IF Len(s) < Len(pattern) THEN <<>>
    ELSE IF StartsWith(s, pattern)
         THEN SubSeq(s, Len(pattern) + 1, Len(s))
         ELSE After(Tail(s), pattern)

\* s up to the first occurrence of the pattern, the pattern included.
UpTo(s, pattern) == SubSeq(s, 1, Len(s) - Len(After(s, pattern)))

\* element.getAttribute('src') of a start tag: the value that follows src=,
\* or null.
SrcOfTag(tag) ==
    IF Includes(tag, SrcAttr)
    THEN LET rest == After(tag, SrcAttr) IN SubSeq(rest, 1, Len(rest) - 1)
    ELSE Empty

\* publish.ts:102-104  new JSDOM(content) and querySelectorAll('img'): the
\* src of every img element of the parsed document, in document order. A
\* comment is no element, whatever its text.
RECURSIVE ImgElements(_)
ImgElements(s) ==
    IF s = <<>> THEN <<>>
    ELSE IF StartsWith(s, CommentOpen)
         THEN ImgElements(After(s, CommentClose))
    ELSE IF StartsWith(s, ImgOpen) /\ Len(s) > Len(ImgOpen)
               /\ s[Len(ImgOpen) + 1] \in {">", " "}
         THEN <<SrcOfTag(UpTo(s, TagClose))>> \o ImgElements(After(s, TagClose))
    ELSE ImgElements(Tail(s))

\* The comments with which the text begins: the parser makes them children
\* of the document, ahead of the html element.
RECURSIVE LeadingComments(_)
LeadingComments(s) ==
    IF StartsWith(s, CommentOpen)
    THEN UpTo(s, CommentClose) \o LeadingComments(After(s, CommentClose))
    ELSE <<>>

DocumentOpen ==
    <<"<", "h", "t", "m", "l", ">", "<", "h", "e", "a", "d", ">",
      "<", "/", "h", "e", "a", "d", ">", "<", "b", "o", "d", "y", ">">>
DocumentClose ==
    <<"<", "/", "b", "o", "d", "y", ">", "<", "/", "h", "t", "m", "l", ">">>

\* publish.ts:123  dom.serialize() of a document no attribute of which was
\* set: the whole document, with the html, head and body elements that the
\* parser added around the content.
Serialize(s) ==
    LET leading == LeadingComments(s) IN
    leading \o DocumentOpen \o SubSeq(s, Len(leading) + 1, Len(s))
            \o DocumentClose

\* The img elements for which the callback of images.map calls uploadImage
\* (publish.ts:108-110): those with a src that is not on the platform CDN.
\* The srcs of the model are local paths.
ToUpload(images) == SelectSeq(images, LAMBDA src : src # Empty)

\* uploadImages was not called yet.
InitRelocation ==
    relocation = [pc |-> "idle", content |-> <<>>, html |-> <<>>,
                  firstImageId |-> Empty, images |-> 0, uploads |-> 0]

\* publish.ts:95-125  uploadImages up to its return or its first await:
\* without the string '<img' it returns the content as it is; otherwise it
\* parses the content, calls uploadImage for the img elements that need it
\* and awaits them, or, when none does, returns the serialized document.
UploadImages(content) ==
    /\ relocation.pc = "idle"
    /\ relocation' =
          IF ~Includes(content, ImgOpen)
          THEN [pc |-> "returned", content |-> content, html |-> content,
                firstImageId |-> Empty, images |-> 0, uploads |-> 0]
          ELSE LET images == ImgElements(content) IN
               IF ToUpload(images) # <<>>
               THEN [pc |-> "await", content |-> content, html |-> <<>>,
                     firstImageId |-> Empty, images |-> Len(images),
                     uploads |-> Len(ToUpload(images))]
               ELSE [pc |-> "returned", content |-> content,
                     html |-> Serialize(content), firstImageId |-> Empty,
                     images |-> Len(images), uploads |-> 0]
    /\ UNCHANGED <<dvars, pvars, tvars, material, tokenCall>>

NextRelocation == \E content \in HtmlContents : UploadImages(content)

(***************************************************************************)
(* The tool calls of index.ts: the CallToolRequestSchema handler of a      *)
(* session's server, reached through the transport of a POST, with the     *)
(* publish call it makes. The theme names and ids are sequences of         *)
(* characters.                                                             *)
(***************************************************************************)
\* The registry of theme.ts: the themes in the order of their registration,
\* each registered under its id.
Themes ==
    << [id |-> <<"d", "e", "f", "a", "u", "l", "t">>,
        name |-> <<"D", "e", "f", "a", "u", "l", "t">>],
       [id |-> <<"p", "i", "e">>, name |-> <<"P", "i", "e">>],
       [id |-> <<"c", "a", "t">>, name |-> <<"M", "i", "n", "t">>] >>

\* index.ts:121  themes["default"]
DefaultKey == <<"d", "e", "f", "a", "u", "l", "t">>

\* A theme_id that names a property every object inherits from
\* Object.prototype ("constructor").
InheritedName == <<"c", "o", "n", "s", "t", "r", "u", "c", "t", "o", "r">>

\* The theme_id arguments of the model: omitted or empty, the id default, an
\* id, a name in other case than registered, an id in other case (of a theme
\* with another name), an inherited property name.
ThemeIdArgs ==
    { Empty, DefaultKey, <<"p", "i", "e">>, <<"P", "I", "E">>,
      <<"m", "i", "n", "T">>, <<"C", "a", "t">>, InheritedName }

\* String.prototype.toLowerCase, on the characters of the model.
ToLowerChar(c) ==
    CASE c = "C" -> "c" [] c = "D" -> "d" [] c = "E" -> "e" [] c = "I" -> "i"
      [] c = "M" -> "m" [] c = "P" -> "p" [] c = "T" -> "t" [] OTHER -> c

ToLowerCase(str) == [n \in 1..Len(str) |-> ToLowerChar(str[n])]

\* index.ts:121,123  themes[key]: the theme registered under the key (its
\* number in the registry), an inherited member, or undefined.
GetTheme(key) ==
    IF \E n \in 1..Len(Themes) : Themes[n].id = key
    THEN CHOOSE n \in 1..Len(Themes) : Themes[n].id = key
    ELSE IF key = InheritedName THEN Inherited
    ELSE Undefined

\* index.ts:125-127  Object.values(themes).find(theme =>
\* theme.name.toLowerCase() === themeId.toLowerCase())
FindByName(themeId) ==
    LET found == {n \in 1..Len(Themes) :
                    ToLowerCase(Themes[n].name) = ToLowerCase(themeId)} IN
    IF found = {} THEN Undefined
    ELSE CHOOSE n \in found : \A m \in found : n <= m

\* index.ts:121-129  the theme of a publish_article call.
ResolveTheme(themeId) ==
    IF themeId = Empty THEN GetTheme(DefaultKey)
    ELSE IF Truthy(GetTheme(themeId)) THEN GetTheme(themeId)
    ELSE FindByName(themeId)

\* request.params.name
ToolNames == {"publish_article", "list_themes", "other_tool"}

\* What handleFrontMatter and renderMarkdown make of the content argument:
\* the cover of the front matter and the img elements of the HTML.
Articles ==
    { [cover |-> Empty, content |-> <<>>],
      [cover |-> Empty, content |-> << <<"/local", "/b.png">> >>],
      [cover |-> <<"https://", "example.com", "/cover.png">>,
       content |-> << <<"https://", "mmbiz.qpic.cn", "/hosted.png">> >>] }

\* The session ids of the requests that carry tool calls: none, or an id
\* the run can mint.
ToolHeaders == {NoSessionId} \cup {Uuids[n] : n \in 1..MaxSessions}

\* No tool call was handled yet.
IdleTool ==
    [req |-> 0, name |-> "none", themeId |-> Empty, theme |-> Undefined,
     pc |-> "idle", error |-> "none", frontMatter |-> FALSE,
     published |-> FALSE, cover |-> Empty, content |-> <<>>,
     media_id |-> Empty, records |-> 0]

InitTool == tool = IdleTool

\* The handler of the tool call of request i has returned or thrown: the
\* server answers the request through its transport.
Settle(i, t) ==
    /\ tool' = t
    /\ reqs' = [reqs EXCEPT ![i].pc = "done", ![i].resp = TransportResponse]

\* index.ts:114-136,155-170  the transport hands the tool call of request i
\* to the handler, which runs to its first await or to its end. The model
\* follows one tool call at a time.
CallTool(i, name, themeId, article) ==
    /\ i \in 1..Len(reqs)
    /\ reqs[i].pc = "handle"
    /\ reqs[i].method = "POST"
    /\ reqs[i].body = "other"
    /\ objs[reqs[i].transport].sessionId # NoSessionId
    /\ tool.pc \in {"idle", "returned", "threw"}
    /\ LET started == [IdleTool EXCEPT !.req = i, !.name = name] IN
       CASE name = "publish_article" ->
              LET theme == ResolveTheme(themeId) IN
              IF ~Truthy(theme)
              THEN Settle(i, [started EXCEPT !.themeId = themeId,
                                            !.pc = "threw",
                                            !.error = "invalid_theme"])
              ELSE /\ calls < MaxCalls
                   /\ tool' = [started EXCEPT !.themeId = themeId,
                                              !.theme = theme,
                                              !.frontMatter = TRUE,
                                              !.cover = article.cover,
                                              !.content = article.content,
                                              !.pc = "render"]
                   /\ reqs' = [reqs EXCEPT ![i].pc = "tool"]
         [] name = "list_themes" ->
              Settle(i, [started EXCEPT !.pc = "returned",
                                        !.records = Len(Themes)])
         [] OTHER ->
              Settle(i, [started EXCEPT !.pc = "threw",
                                        !.error = "unknown_tool"])
    /\ UNCHANGED <<transports, servers, objs, uuidCount, pvars, uvars>>

\* index.ts:136-141  renderMarkdown resolved, and publishToDraft is called
\* with the rendered HTML and the cover of the front matter; or it rejected.
Rendered(ok) ==
    /\ tool.pc = "render"
    /\ IF ok
       THEN /\ PublishToDraft(tool.cover, tool.content)
            /\ tool' = [tool EXCEPT !.pc = "publish", !.published = TRUE]
            /\ UNCHANGED <<dvars, uvars>>
       ELSE /\ Settle(tool.req, [tool EXCEPT !.pc = "threw",
                                             !.error = "render"])
            /\ UNCHANGED <<transports, servers, objs, uuidCount, pvars,
                           uvars>>

\* The catch block closing the transport of the failed call.
CatchPublishErrorClose(i) ==
    /\ objs' = [objs EXCEPT ![reqs[i].transport].closed = TRUE]
    /\ OnClose(reqs[i].transport)

\* index.ts:151-154  catch (err) { log("Publish error", err); throw err; }
CatchPublishError(i) == UNCHANGED <<transports, servers, objs>>

\* index.ts:141-154  publishToDraft has settled: the handler returns the
\* text with the draft's media id, or throws the error again.
PublishSettled ==
    /\ tool.pc = "publish"
    /\ ppc \in {"returned", "threw"}
    /\ IF ppc = "returned"
       THEN /\ Settle(tool.req, [tool EXCEPT !.pc = "returned",
                                             !.media_id = result.media_id])
            /\ UNCHANGED <<transports, servers, objs>>
       ELSE /\ Settle(tool.req, [tool EXCEPT !.pc = "threw",
                                             !.error = result.error])
            /\ CatchPublishError(tool.req)
    /\ UNCHANGED <<uuidCount, pvars, uvars>>

\* index.ts:34-211  app.post('/mcp') in a run that follows the tool calls.
ToolPost(sessionId, body) ==
    /\ Len(reqs) < MaxToolRequests
    /\ Post(sessionId, body)

NextTool ==
    \/ \E sessionId \in ToolHeaders, body \in Bodies : ToolPost(sessionId, body)
    \/ \E i \in 1..MaxRequests : Connected(i)
    \/ \E i \in 1..MaxRequests : SessionInitialized(i)
    \/ \E i \in 1..MaxRequests : HandleThrew(i)
    \/ \E i \in 1..MaxRequests : HandleResolved(i)
    \/ \E t \in 1..MaxSessions : TransportClose(t)
    \/ \E i \in 1..MaxRequests, name \in ToolNames, themeId \in ThemeIdArgs,
          article \in Articles : CallTool(i, name, themeId, article)
    \/ \E ok \in BOOLEAN : Rendered(ok)
    \/ PublishSettled
    \/ \E shape \in AllJsonShapes : TokenAnswered(shape)
    \/ \E k \in 0..MaxImages, ok \in BOOLEAN : Downloaded(k, ok)
    \/ \E k \in 0..MaxImages, ok \in BOOLEAN : FileRead(k, ok)
    \/ \E k \in 0..MaxImages, answer \in UploadAnswers : Uploaded(k, answer)
    \/ \E shape \in AllJsonShapes : DraftAnswered(shape)

Init ==
    /\ InitDispatcher
    /\ InitPublish
    /\ InitMaterial
    /\ InitToken
    /\ InitRelocation
    /\ InitTool

Spec == Init /\ [][Next]_vars

SpecPublish == Init /\ [][NextPublish]_vars

\* A response to one of the call's requests arrives (for a local path, the
\* file is read): the awaits of publish.ts resume.
Responses ==
    \/ \E shape \in JsonShapes : TokenAnswered(shape)
    \/ \E k \in 0..MaxImages, ok \in BOOLEAN : Downloaded(k, ok)
    \/ \E k \in 0..MaxImages, ok \in BOOLEAN : FileRead(k, ok)
    \/ \E k \in 0..MaxImages, answer \in UploadAnswers : Uploaded(k, answer)
    \/ \E shape \in JsonShapes : DraftAnswered(shape)

\* The publish calls in an environment that answers: a request that awaits
\* its response eventually receives one.
SpecPublishFair == SpecPublish /\ WF_vars(Responses)

SpecMaterial == Init /\ [][NextMaterial]_vars

SpecToken == Init /\ [][NextToken]_vars

SpecRelocation == Init /\ [][NextRelocation]_vars

SpecTool == Init /\ [][NextTool]_vars

(***************************************************************************)
(* Properties of the dispatcher.                                           *)
(***************************************************************************)
\* The step in which a request arrives, and the request that arrived.
Arrives == Len(reqs') = Len(reqs) + 1
Arrived == reqs'[Len(reqs')]

\* A response that refuses the request: written by the dispatcher itself,
\* with an error status.
Rejected(r) ==
    r.pc = "done" /\ r.resp.by = "dispatcher" /\ r.resp.status >= 400

\* The request was never passed to a transport's handleRequest.
NotHanded(r) == ~IsTransport(r.transport)

\* Every id a transport was ever given, closed sessions included.
EverRegistered == {objs[t].sessionId : t \in 1..Len(objs)} \ {NoSessionId}

\* The ids of the sessions that were closed.
ClosedIds ==
    {objs[t].sessionId : t \in {u \in 1..Len(objs) : objs[u].closed}}
        \ {NoSessionId}

\* C1: a request (POST, GET or DELETE) whose non-empty session id is no key
\* of the session maps is rejected in the step in which it arrives, and that
\* step changes nothing: no map entry is added, removed or replaced, no
\* transport or server is created, and no transport is handed the request;
\* a request once answered never moves again.
C1_UnknownSessionRejected ==
    [][/\ (Arrives /\ Arrived.sessionId # NoSessionId
                   /\ Arrived.sessionId \notin DOMAIN transports)
           => /\ Rejected(Arrived)
              /\ NotHanded(Arrived)
              /\ UNCHANGED <<transports, servers, objs, uuidCount>>
       /\ \A i \in 1..Len(reqs) : reqs[i].pc = "done" => reqs'[i] = reqs[i]
      ]_dvars

\* C1 witness: while a session is active, a POST carrying an initialization
\* body and a GET, both with a non-empty id that was never registered, were
\* rejected.
C1_Witness ==
    /\ DOMAIN transports # {}
    /\ \E i, j \in 1..Len(reqs) :
          /\ reqs[i].method = "POST" /\ reqs[i].body = "initialize"
          /\ reqs[j].method = "GET"
          /\ \A k \in {i, j} :
                /\ reqs[k].sessionId \notin EverRegistered \cup {NoSessionId}
                /\ Rejected(reqs[k])

\* The ids given to distinct transports differ, and no transport is
\* registered under two keys.
UniqueIds ==
    /\ \A t, u \in 1..Len(objs) :
          (t # u /\ objs[t].sessionId # NoSessionId)
             => objs[t].sessionId # objs[u].sessionId
    /\ \A t \in 1..Len(objs) :
          Cardinality({k \in DOMAIN transports : transports[k] = t}) <= 1

\* The step in which the transport of request i initializes its session.
Initializes(i) == reqs[i].pc = "handle" /\ reqs'[i].pc = "respond"

\* That step adds exactly one key, never registered before, to both maps.
AddsOneFreshKey ==
    \E sid \in {Uuids[n] : n \in 1..Len(Uuids)} :
       /\ sid \notin DOMAIN transports \cup EverRegistered
       /\ DOMAIN transports' = DOMAIN transports \cup {sid}
       /\ DOMAIN servers' = DOMAIN servers \cup {sid}

\* C2 as stated: every POST without a session id whose body is an
\* initialization request has, once handled, created exactly one session,
\* under an id that differs from every id registered earlier.
C2_EveryInitCreatesOne ==
    /\ UniqueIds
    /\ \A i \in 1..Len(reqs) :
          (reqs[i].branch = "init" /\ reqs[i].pc = "done")
             => objs[reqs[i].transport].sessionId # NoSessionId

\* C2 amended: a POST without a session id whose body is an initialization
\* request creates at most one session, and exactly one in the step in which
\* its transport accepts the initialization: that step adds exactly one key
\* to the maps, which differs from every id ever registered earlier (closed
\* sessions included), for every interleaving of the requests; an answered
\* initialization request whose transport was given an id is one that went
\* through that step.
C2_InitCreatesOneFreshOnAccept ==
    /\ []UniqueIds
    /\ [][\A i \in 1..Len(reqs) :
             /\ Initializes(i) => (reqs[i].branch = "init" /\ AddsOneFreshKey)
             /\ (reqs[i].branch = "init" /\ ~Initializes(i))
                   => objs'[reqs[i].transport].sessionId
                         = objs[reqs[i].transport].sessionId
         ]_dvars

\* C2 witness: two initialization requests are in flight together, each
\* past the initialization of its own session and neither answered yet, and
\* the two sessions are registered under different ids.
C2_Witness ==
    /\ Len(reqs) >= 2
    /\ reqs[1].branch = "init" /\ reqs[2].branch = "init"
    /\ reqs[1].pc = "respond" /\ reqs[2].pc = "respond"
    /\ objs[1].sessionId # objs[2].sessionId
    /\ {objs[1].sessionId, objs[2].sessionId} = DOMAIN transports

\* C3: the two maps have the same keys; each key maps to the transport and
\* the server created together by one initialization request, whose
\* transport carries that key as its session id; every request that bore an
\* active id was routed to that pair, and no request routed to an existing
\* session (an initialization body included) initializes a session.
C3_MapsAgreeAndRoute ==
    /\ DOMAIN transports = DOMAIN servers
    /\ \A sid \in DOMAIN transports :
          /\ IsTransport(transports[sid])
          /\ servers[sid] = transports[sid]
          /\ objs[transports[sid]].sessionId = sid
          /\ \E i \in 1..Len(reqs) :
                /\ reqs[i].branch = "init"
                /\ reqs[i].transport = transports[sid]
                /\ reqs[i].server = servers[sid]
    /\ \A i \in 1..Len(reqs) :
          (reqs[i].branch = "reuse" /\ IsTransport(reqs[i].transport))
             => /\ objs[reqs[i].transport].sessionId = reqs[i].sessionId
                /\ reqs[i].method = "POST"
                      => reqs[i].server = reqs[i].transport
                /\ reqs[i].pc # "respond"

\* C3 witness: with two sessions active, a POST carrying an initialization
\* body and the id of the first session was routed to the first pair and
\* answered.
C3_Witness ==
    /\ Cardinality(DOMAIN transports) = 2
    /\ \E i \in 1..Len(reqs) :
          /\ reqs[i].branch = "reuse"
          /\ reqs[i].body = "initialize"
          /\ reqs[i].transport = 1
          /\ reqs[i].server = 1
          /\ reqs[i].pc = "done"

\* The step in which transport t signals closure.
Closes(t) == ~objs[t].closed /\ objs'[t].closed

\* C4: when the transport of an active session signals closure, that step
\* removes the session's id from both maps and leaves every other entry as
\* it was; a request that arrives later with that id is rejected as one
\* bearing an unknown id, and is handed to no transport.
C4_CloseRemovesSession ==
    [][/\ \A t \in 1..Len(objs) :
             (Closes(t) /\ objs[t].sessionId \in DOMAIN transports)
                => /\ transports' = Delete(transports, objs[t].sessionId)
                   /\ servers' = Delete(servers, objs[t].sessionId)
                   /\ objs[t].sessionId \notin DOMAIN transports'
                   /\ objs[t].sessionId \notin DOMAIN servers'
       /\ (Arrives /\ Arrived.sessionId \in ClosedIds)
             => /\ Arrived.branch = "reject"
                /\ Rejected(Arrived)
                /\ NotHanded(Arrived)
                /\ UNCHANGED <<transports, servers, objs, uuidCount>>
      ]_dvars

\* C4 witness: of two sessions the first was closed and the second is still
\* registered with its own pair, and a request that came with the closed
\* session's id was rejected.
C4_Witness ==
    /\ Len(objs) = 2
    /\ objs[1].closed /\ objs[1].sessionId # NoSessionId
    /\ objs[2].sessionId \in DOMAIN transports
    /\ transports[objs[2].sessionId] = 2
    /\ \E i \in 1..Len(reqs) :
          /\ reqs[i].sessionId = objs[1].sessionId
          /\ reqs[i].branch = "reject"

\* C5: a key is added to the session maps only by the initialization of a
\* POST that had no session id and an initialization body; a POST with no
\* session id and any other body is rejected with code -32000 and creates
\* nothing; no GET, DELETE or POST bearing a session id adds a key.
C5_GrowthOnlyByInit ==
    [][/\ (~(DOMAIN transports' \subseteq DOMAIN transports)
             \/ ~(DOMAIN servers' \subseteq DOMAIN servers))
          => \E i \in 1..Len(reqs) :
                /\ Initializes(i)
                /\ reqs[i].method = "POST"
                /\ reqs[i].sessionId = NoSessionId
                /\ reqs[i].body = "initialize"
       /\ (Arrives /\ Arrived.method = "POST"
                   /\ Arrived.sessionId = NoSessionId
                   /\ Arrived.body # "initialize")
          => /\ Arrived.pc = "done"
             /\ Arrived.resp = BadRequest
             /\ NotHanded(Arrived)
             /\ UNCHANGED <<transports, servers, objs, uuidCount>>
      ]_dvars

\* C5 witness: a session exists, a POST with no session id and a body that
\* is no initialization request was rejected, and a GET bearing the
\* session's id was handed to its transport.
C5_Witness ==
    /\ DOMAIN transports # {}
    /\ \E i, j \in 1..Len(reqs) :
          /\ reqs[i].method = "POST" /\ reqs[i].sessionId = NoSessionId
          /\ reqs[i].body = "other" /\ reqs[i].resp = BadRequest
          /\ reqs[j].method = "GET" /\ reqs[j].branch = "reuse"
          /\ IsTransport(reqs[j].transport)

\* C6: every rejection by session routing, whatever the request's method,
\* is answered with a structured error carrying code -32000.
C6_RejectionsCarryCode ==
    \A i \in 1..Len(reqs) :
       reqs[i].branch = "reject" => reqs[i].resp.code = -32000

(***************************************************************************)
(* Properties of the draft publisher.                                      *)
(***************************************************************************)
\* publishToDraft has returned or thrown.
Finished == ppc \in {"returned", "threw"}

\* The requests issued so far that satisfy P.
Sent(P(_)) == {n \in 1..Len(sent) : P(sent[n])}

IsDraft(r) == r.kind = "draft"
IsCoverRequest(r) == r.who = 0

\* The call has no explicit cover and no img element that carries a src (in
\* particular, no img element at all).
NoCoverNoImage ==
    /\ ppc # "idle"
    /\ call.cover = Empty
    /\ \A k \in Images : call.content[k] = Empty

\* C7 as stated: a publish call with neither an explicit cover nor an
\* embedded image fails with the missing-cover error, and sends no
\* draft-creation request.
C7_FailsWithMissingCover ==
    NoCoverNoImage
       => /\ Sent(IsDraft) = {}
          /\ Finished => result = Threw("missing_cover")

\* C7 amended: a publish call with neither an explicit cover nor an embedded
\* image fails and sends no draft-creation request and no upload; the error
\* is the missing-cover error when the token exchange gave a token, and the
\* error of the token exchange otherwise.
C7_FailsBeforeDraft ==
    NoCoverNoImage
       => /\ sent = <<TokenRequest>>
          /\ Finished
                => /\ result.status = "threw"
                   /\ accessToken # Empty => result.error = "missing_cover"
                   /\ accessToken = Empty
                         => result.error \in {"token_errcode",
                                              "token_unexpected"}

\* C7 witness: a call without cover whose HTML holds no img element obtained
\* its token and failed with the missing-cover error.
C7_Witness ==
    /\ NoCoverNoImage
    /\ Len(call.content) = 0
    /\ accessToken # Empty
    /\ result = Threw("missing_cover")

\* C8: when an explicit cover is supplied, the cover is uploaded under the
\* file name cover.jpg and the thumb_media_id of the draft-creation request
\* is the media id which that upload returned, whatever the embedded images
\* and the media ids of their uploads.
C8_ThumbIsUploadedCover ==
    (ppc # "idle" /\ call.cover # Empty)
       => /\ \A n \in Sent(IsDraft) :
                /\ tasks[0].pc = "done"
                /\ tasks[0].imageUrl = call.cover
                /\ tasks[0].resp \in {Normalized(d) : d \in UploadResponses}
                /\ sent[n].thumb = tasks[0].resp.media_id
          /\ \A n \in Sent(IsCoverRequest) :
                sent[n].kind = "upload" => sent[n].fileName = <<"cover.jpg">>

\* C8 witness: a draft request was sent for a call with an explicit cover
\* whose first embedded image was uploaded with another media id than the
\* cover.
C8_Witness ==
    /\ call.cover # Empty
    /\ Sent(IsDraft) # {}
    /\ Len(call.content) >= 1
    /\ tasks[1].out # Empty
    /\ tasks[1].resp.media_id # Empty
    /\ tasks[1].out # tasks[0].resp.media_id
    /\ relocated.firstImageId = tasks[1].out

\* The outcome of the callback of img element k once it has settled: the
\* src itself for a CDN src, the media id of its upload otherwise.
Outcome(k) ==
    IF StartsWith(call.content[k], CdnPrefix) THEN call.content[k]
    ELSE tasks[k].resp.media_id

\* The img elements that have a src.
WithSrc == {k \in Images : call.content[k] # Empty}

\* C9: the fallback media id that uploadImages returns is the outcome of the
\* first img element, in document order, that has a src, whatever the order
\* in which the uploads complete; it is empty when no element has a src.
C9_FirstIdInDocumentOrder ==
    relocated.done
       => relocated.firstImageId =
             IF WithSrc = {} THEN Empty
             ELSE Outcome(CHOOSE k \in WithSrc : \A j \in WithSrc : k <= j)

\* C9 witness: uploadImages returned for two uploaded img elements of which
\* the second settled before the first and received another media id.
C9_Witness ==
    /\ relocated.done
    /\ Len(call.content) = 2
    /\ settled = <<2, 1>>
    /\ tasks[1].resp.media_id # Empty
    /\ tasks[2].resp.media_id # Empty
    /\ tasks[1].resp.media_id # tasks[2].resp.media_id
    /\ relocated.firstImageId = tasks[1].resp.media_id

\* The img elements whose src is not on the platform CDN.
NotOnCdn == {k \in WithSrc : ~StartsWith(call.content[k], CdnPrefix)}

\* The first element, in document order, of a set of img elements.
FirstOf(S) == CHOOSE k \in S : \A j \in S : k <= j

\* C22 as stated: without an explicit cover and with an embedded image that
\* is not on the platform CDN, the thumb_media_id of the draft-creation
\* request is the media id returned by the upload of the first such image in
\* document order, also when an image on the CDN stands before it.
C22_ThumbIsFirstUploadedImage ==
    (ppc # "idle" /\ call.cover = Empty /\ NotOnCdn # {})
       => \A n \in Sent(IsDraft) :
             /\ tasks[FirstOf(NotOnCdn)].pc = "done"
             /\ sent[n].thumb = tasks[FirstOf(NotOnCdn)].resp.media_id

\* C22 amended: without an explicit cover and with an embedded image that
\* has a src, the thumb_media_id of the draft-creation request is decided by
\* the first img element with a src in document order. When that src is not
\* on the platform CDN, it is the media id returned by the upload of that
\* image and no cover upload is made; when it is on the CDN, the CDN URL is
\* downloaded and uploaded again as cover.jpg and the thumb_media_id is the
\* media id of that upload, whatever images follow it.
C22_ThumbFromFirstImageWithSrc ==
    (ppc # "idle" /\ call.cover = Empty /\ WithSrc # {})
       => \A n \in Sent(IsDraft) :
             LET k == FirstOf(WithSrc) IN
             IF StartsWith(call.content[k], CdnPrefix)
             THEN /\ tasks[0].pc = "done"
                  /\ tasks[0].imageUrl = call.content[k]
                  /\ tasks[0].fileName = <<"cover.jpg">>
                  /\ tasks[0].resp \in {Normalized(d) : d \in UploadResponses}
                  /\ sent[n].thumb = tasks[0].resp.media_id
             ELSE /\ tasks[k].pc = "done"
                  /\ tasks[k].resp \in {Normalized(d) : d \in UploadResponses}
                  /\ sent[n].thumb = tasks[k].resp.media_id
                  /\ Sent(IsCoverRequest) = {}

\* C22 witness: a draft request was sent for a call without cover whose
\* first img element is on the CDN and whose second was uploaded; the
\* thumb_media_id is the media id of the cover upload, which is another than
\* the media id of the second element's upload.
C22_Witness ==
    /\ call.cover = Empty
    /\ Len(call.content) = 2
    /\ StartsWith(call.content[1], CdnPrefix)
    /\ NotOnCdn = {2}
    /\ Sent(IsDraft) # {}
    /\ tasks[2].resp.media_id # Empty
    /\ thumbMediaId = tasks[0].resp.media_id
    /\ thumbMediaId # tasks[2].resp.media_id
    /\ \A n \in Sent(IsDraft) : sent[n].thumb = thumbMediaId

\* Whether the upload of an embedded image has failed.
ImageFailed == \E k \in Images : k \in DOMAIN tasks /\ tasks[k].pc = "failed"

\* C10: once the upload of an embedded image has failed, the publish call
\* has failed with that error: uploadImages returns no HTML, no request of
\* the cover upload and no draft-creation request is ever issued, and
\* nothing is returned to the caller, with or without an explicit cover.
C10_ImageFailureAborts ==
    ImageFailed
       => /\ ppc = "threw"
          /\ result.status = "threw"
          /\ result.error \in {"download", "read", "http_error", "errcode"}
          /\ ~relocated.done
          /\ Sent(IsDraft) = {}
          /\ Sent(IsCoverRequest) = {}
          /\ tasks[0].pc = "idle"

\* C10 witness: with an explicit cover and two embedded images, the src of
\* the first was rewritten to its uploaded URL and the upload of the second
\* failed.
C10_Witness ==
    /\ call.cover # Empty
    /\ Len(call.content) = 2
    /\ tasks[1].pc = "done"
    /\ tasks[1].resp.url # Empty
    /\ dom[1] = tasks[1].resp.url
    /\ dom[1] # call.content[1]
    /\ tasks[2].pc = "failed"
    /\ ppc = "threw"

\* The place of a remote request in the pipeline: the token exchange, the
\* requests of the embedded images, the requests of the cover, the draft.
Rank(r) ==
    IF r.kind = "token" THEN 0
    ELSE IF r.kind = "draft" THEN 3
    ELSE IF r.who = 0 THEN 2
    ELSE 1

\* C11: the remote requests of a publish call are issued in the order token
\* exchange, requests of the embedded images, requests of the cover, draft
\* creation; none but the token request is issued before the token was
\* obtained; the cover upload starts only when the upload of every embedded
\* image has succeeded; the draft request is sent at most once, and carries
\* the non-empty cover media id that was resolved.
C11_RequestOrder ==
    /\ \A n, m \in 1..Len(sent) : n < m => Rank(sent[n]) <= Rank(sent[m])
    /\ \A n \in 1..Len(sent) : Rank(sent[n]) = 0 <=> n = 1
    /\ Len(sent) > 1 => accessToken # Empty
    /\ (ppc # "idle" /\ tasks[0].pc # "idle")
          => \A k \in Images : tasks[k].pc = "done"
    /\ Cardinality(Sent(IsDraft)) <= 1
    /\ \A n \in Sent(IsDraft) :
          sent[n].thumb # Empty /\ sent[n].thumb = thumbMediaId

\* C11 witness: a call with an explicit cover and two uploaded images has
\* issued the requests of all four stages, the upload of the second image
\* before that of the first, and the draft endpoint has answered.
C11_Witness ==
    /\ ppc = "returned"
    /\ Len(call.content) = 2
    /\ \E a, b, c, d \in 1..Len(sent) :
          /\ a < b /\ b < c /\ c < d
          /\ sent[a].kind = "upload" /\ sent[a].who = 2
          /\ sent[b].kind = "upload" /\ sent[b].who = 1
          /\ sent[c].kind = "upload" /\ sent[c].who = 0
          /\ sent[d].kind = "draft"

\* Image relocation has reported its result: uploadImages has returned, or
\* it has thrown the error of an upload.
RelocationReported == relocated.done \/ (ImageFailed /\ ppc = "threw")

\* C16: when image relocation has returned or failed, every upload it
\* started has settled: none is still awaiting its download, its file or
\* the answer of the material endpoint (and so issues no request later).
C16_AllSettledAtResult ==
    RelocationReported
       => \A k \in Images : tasks[k].pc \in {"done", "failed"}

IsToken(r) == r.kind = "token"

\* The requests of kind kind that uploadImage call k has issued.
SentBy(kind, k) ==
    {n \in 1..Len(sent) : sent[n].kind = kind /\ sent[n].who = k}

\* C17: a publish call sends exactly one token request, whatever the calls
\* before it obtained (as many token requests as calls in all), at most
\* one download and one upload for each img element, at most one download
\* and one upload for the cover, and at most one draft request; in
\* particular no request is sent again after it failed.
C17_NoRepeatedRequest ==
    /\ tokenRequests = calls
    /\ ppc # "idle"
          => /\ Cardinality(Sent(IsToken)) = 1
             /\ \A k \in {0} \cup Images :
                   /\ Cardinality(SentBy("download", k)) <= 1
                   /\ Cardinality(SentBy("upload", k)) <= 1
             /\ Cardinality(Sent(IsDraft)) <= 1
             /\ \A n \in 1..Len(sent) :
                   sent[n].kind \in {"token", "download", "upload", "draft"}

\* C17 witness: the second of two consecutive calls has failed in the
\* upload of its only image, whose download and upload were each requested
\* once, after its own token request.
C17_Witness ==
    /\ calls = 2
    /\ tokenRequests = 2
    /\ Len(call.content) = 1
    /\ ppc = "threw"
    /\ accessToken # Empty
    /\ tasks[1].pc = "failed"
    /\ tasks[1].error = "http_error"
    /\ Cardinality(SentBy("download", 1)) = 1
    /\ Cardinality(SentBy("upload", 1)) = 1

\* C20: when uploadImages has returned, whatever the order in which the
\* uploads completed: each img element whose src was not on the platform
\* CDN has as src the URL which the upload of that element returned, and
\* exactly one upload (after at most one download) was issued for it; each
\* img element whose src was on the CDN, and each without src, has its src
\* unchanged and caused no request.
C20_EachSrcFromOwnUpload ==
    relocated.done
       => /\ relocated.html = dom
          /\ \A k \in Images :
                IF call.content[k] # Empty
                   /\ ~StartsWith(call.content[k], CdnPrefix)
                THEN /\ tasks[k].pc = "done"
                     /\ tasks[k].imageUrl = call.content[k]
                     /\ tasks[k].resp
                           \in {Normalized(d) : d \in UploadResponses}
                     /\ dom[k] = tasks[k].resp.url
                     /\ Cardinality(SentBy("upload", k)) = 1
                     /\ Cardinality(SentBy("download", k)) <= 1
                ELSE /\ dom[k] = call.content[k]
                     /\ SentBy("upload", k) = {}
                     /\ SentBy("download", k) = {}

\* C20 witness: uploadImages returned for two uploaded images of which the
\* second completed first and received another URL than the first.
C20_Witness ==
    /\ relocated.done
    /\ Len(call.content) = 2
    /\ settled = <<2, 1>>
    /\ dom[1] = tasks[1].resp.url
    /\ dom[2] = tasks[2].resp.url
    /\ dom[1] # dom[2]
    /\ dom[1] # Empty /\ dom[2] # Empty

\* The uploadImage calls one of whose remote requests (the download of the
\* image, the upload of the material) awaits its response.
AwaitingResponse == {k \in DOMAIN tasks : tasks[k].pc \in {"download", "upload"}}

\* C23, first part: when the requests of a publish call are answered
\* (SpecPublishFair), the call eventually completes, with a draft media id or
\* with an error.
C23_AnsweredCallCompletes ==
    (ppc = "token")
       ~> (\/ ppc = "returned" /\ result.status = "returned"
                 /\ result.media_id # Empty
           \/ ppc = "threw" /\ result.status = "threw"
                 /\ result.error # "none")

\* C23: a publish call completes only by the responses to its own remote
\* requests: while one of the requests it issued has received no response,
\* the call has neither returned nor thrown, so that it stays pending for as
\* long as that response is missing.
C23_PendingUntilAnswered == Finished => AwaitingResponse = {}

(***************************************************************************)
(* Properties of uploadMaterial.                                           *)
(***************************************************************************)
\* C12: the url of the result of a successful uploadMaterial call does not
\* begin with http://, whatever URL the endpoint returned.
C12_NeverInsecurePrefix ==
    material.pc = "returned" => ~StartsWith(material.data.url, HttpPrefix)

\* C12 witness: uploadMaterial returned for a URL that the endpoint gave
\* with the prefix http:// and with a second http:// right after it.
C12_Witness ==
    /\ material.pc = "returned"
    /\ material.returned.url = HttpPrefix \o HttpPrefix \o <<"a">>
    /\ material.data.url = HttpsPrefix \o HttpPrefix \o <<"a">>

\* C18: the rewriting of the url is a substitution of the prefix only: a
\* URL that begins with http:// has that prefix replaced by https:// and the
\* rest kept, and any other URL is returned unchanged.
C18_PrefixSubstitutionOnly ==
    material.pc = "returned"
       => material.data.url =
             IF StartsWith(material.returned.url, HttpPrefix)
             THEN HttpsPrefix \o SubSeq(material.returned.url,
                                        Len(HttpPrefix) + 1,
                                        Len(material.returned.url))
             ELSE material.returned.url

(***************************************************************************)
(* Properties of uploadImages.                                             *)
(***************************************************************************)
\* C21: when the HTML has no img element, uploadImages calls no uploadImage
\* (no remote request is issued) and returns the input HTML unchanged with an
\* empty firstImageId.
C21_NoImgIsNoOp ==
    (relocation.pc # "idle" /\ ImgElements(relocation.content) = <<>>)
       => /\ relocation.pc = "returned"
          /\ relocation.uploads = 0
          /\ relocation.html = relocation.content
          /\ relocation.firstImageId = Empty

(***************************************************************************)
(* Properties of the tool calls.                                           *)
(***************************************************************************)
\* The themes registered under an id, and those whose name is a string
\* whatever the case of its letters.
RegisteredAs(themeId) == {n \in 1..Len(Themes) : Themes[n].id = themeId}
NamedLike(themeId) ==
    {n \in 1..Len(Themes) :
        ToLowerCase(Themes[n].name) = ToLowerCase(themeId)}

\* C13: a publish_article call without theme_id has the theme registered as
\* default; a theme_id that is a registered id has that theme, any other
\* that is a registered name (in any case) has the theme of that name; with
\* any other theme_id the call has failed with the invalid-theme error, and
\* has neither parsed the front matter nor called publishToDraft.
C13_ThemeSelection ==
    (tool.name = "publish_article" /\ tool.pc # "idle")
       => IF tool.themeId = Empty THEN tool.theme \in RegisteredAs(DefaultKey)
          ELSE IF RegisteredAs(tool.themeId) # {}
               THEN tool.theme \in RegisteredAs(tool.themeId)
          ELSE IF NamedLike(tool.themeId) # {}
               THEN tool.theme \in NamedLike(tool.themeId)
          ELSE /\ tool.pc = "threw"
               /\ tool.error = "invalid_theme"
               /\ ~tool.frontMatter
               /\ ~tool.published

(***************************************************************************)
(* Properties of fetchAccessToken.                                         *)
(***************************************************************************)
\* Neither the arguments nor the process-level defaults yield a non-empty
\* application id and a non-empty application secret.
NoCredentials ==
    \/ tokenCall.appid = Empty /\ tokenCall.envId = Empty
    \/ tokenCall.appsecret = Empty /\ tokenCall.envSecret = Empty

\* A supplied value that is not empty is the one sent.
SuppliedIsSent ==
    /\ tokenCall.appid # Empty => tokenCall.query.appid = tokenCall.appid
    /\ tokenCall.appsecret # Empty
          => tokenCall.query.secret = tokenCall.appsecret

C15_ToolCallsKeepSessions ==
    [][/\ (tool' # tool \/ pvars' # pvars)
             => UNCHANGED <<transports, servers, objs, uuidCount>>
       /\ (transports' # transports \/ servers' # servers)
             => \/ \E i \in 1..Len(reqs) : Initializes(i)
                \/ \E t \in 1..Len(objs) : Closes(t)
       /\ (tool' # tool /\ tool'.name = "list_themes")
             => /\ UNCHANGED pvars
                /\ tool'.pc = "returned"
                /\ tool'.records = Len(Themes)
      ]_vars

\* C15 witness: a publish_article call failed in the upload of an image,
\* and the session that issued it is still registered with its transport,
\* which was not closed.
C15_Witness ==
    /\ tool.name = "publish_article"
    /\ tool.pc = "threw"
    /\ tool.published
    /\ tool.error = "errcode"
    /\ reqs[tool.req].sessionId \in DOMAIN transports
    /\ transports[reqs[tool.req].sessionId] = reqs[tool.req].transport
    /\ servers[reqs[tool.req].sessionId] = reqs[tool.req].server
    /\ ~objs[reqs[tool.req].transport].closed

\* C19: the outcome of the token exchange and of the draft creation follows
\* from the answered body alone: with the success field the step succeeds
\* with its value (also when an errcode stands beside it); without it and
\* with an errcode the call throws the error of that errcode; with neither
\* it throws the unexpected-response error. The publish call returns, and
\* publish_article reports the draft's media id, only when the draft
\* endpoint answered with a media_id.
C19_OutcomeByShape ==
    /\ answers.token = "none" => accessToken = Empty
    /\ answers.token \in {"value", "both"}
          => /\ accessToken = <<"token">>
             /\ result.error \notin {"token_errcode", "token_unexpected"}
    /\ answers.token = "errcode"
          => ppc = "threw" /\ result = Threw("token_errcode")
    /\ answers.token = "neither"
          => ppc = "threw" /\ result = Threw("token_unexpected")
    /\ answers.draft \in {"value", "both"}
          => ppc = "returned" /\ result = Returned(<<"draft-1">>)
    /\ answers.draft = "errcode"
          => ppc = "threw" /\ result = Threw("draft_errcode")
    /\ answers.draft = "neither"
          => ppc = "threw" /\ result = Threw("draft_unexpected")
    /\ result.status = "returned" => answers.draft \in {"value", "both"}
    /\ (tool.name = "publish_article" /\ tool.pc = "returned")
          => /\ answers.draft \in {"value", "both"}
             /\ tool.media_id = <<"draft-1">>
    /\ (tool.name = "publish_article" /\ tool.pc = "threw"
           /\ tool.published /\ answers.draft # "none")
          => tool.error \in {"draft_errcode", "draft_unexpected"}

\* C19 witness: a publish_article call whose token exchange was answered
\* with an access_token and whose draft creation was answered with neither
\* a media_id nor an errcode has reported the unexpected-response error.
C19_Witness ==
    /\ tool.name = "publish_article"
    /\ tool.pc = "threw"
    /\ answers.token = "value"
    /\ answers.draft = "neither"
    /\ tool.error = "draft_unexpected"

====
